---- MODULE Spec2Model ----
(***************************************************************************)
(* A model of `fly execute` (src/commands/execute.go): the main path of    *)
(* ExecuteCommand.Execute from CreateBuild on, the abortOnSignal watcher   *)
(* goroutine, the input-upload goroutine and one goroutine per output.     *)
(*                                                                         *)
(* Each goroutine is a program counter; a call into an external            *)
(* collaborator (AbortBuild, Upload, Download, BuildEvents, Render) is a   *)
(* step that starts the call and a step that returns from it with a        *)
(* nondeterministic outcome.  os.Exit ends the process: every action is    *)
(* guarded by the process being alive.                                     *)
(***************************************************************************)
EXTENDS Integers, Sequences, FiniteSets, TLC

\* ---- bounds of the model ------------------------------------------------
\* The input and output bindings of a run, counted together.
MaxBindings == 3
MaxInterrupts == 2
\* The bindings of a run in the specifications with fairness, whose
\* behaviours are checked to their end.
MaxLiveBindings == 2
MaxExitCode == 2

\* ---- program constants --------------------------------------------------
\* make(chan os.Signal, 1): the buffer of the terminate channel.
TerminateCap == 1
\* os.Exit(2) in abortOnSignal.
ForcedExitCode == 2

\* The value of the exit code while the process has not called os.Exit.
NoCode == 0 - 1

\* A binding's local path: empty, or some non-empty path.
Paths == {"", "p"}
Signals == {"SIGINT", "SIGTERM"}
RenderCodes == 0..MaxExitCode
Outcomes == {"ok", "fail"}

VARIABLES
    inputs,       \* the resolved input bindings: a sequence of local paths
    outputs,      \* the resolved output bindings: a sequence of local paths
    mainpc,       \* position of Execute on the main goroutine
    execErr,      \* the error Execute returned, "" if none
    buildCreated, \* CreateBuild has returned a build
    armed,        \* signal.Notify(terminate, ...) has been called
    terminate,    \* the buffered channel `terminate`: the signals queued in it
    wpc,          \* position of the abortOnSignal goroutine
    delivered,    \* number of interrupts the OS delivered to the process
    consumed,     \* number of receives abortOnSignal completed on terminate
    abortCalls,   \* number of client.AbortBuild calls issued
    abortFailed,  \* AbortBuild returned an error (reported on stderr)
    ipc,          \* position of the input-upload goroutine
    iIdx,         \* index of the input binding that goroutine is at
    upState,      \* per input, its Upload call: "idle", "running", "returned"
    inputCloses,  \* number of close(inputChan) executed
    opc,          \* per output: position of its goroutine
    dlState,      \* per output, its Download call: "idle", "running", "returned"
    outCloses,    \* per output: number of close(outputChan) executed
    transferFailed, \* some Upload or Download call has failed
    feed,         \* the event source: "unopened", "open", "closed"
    feedCloses,   \* number of eventSource.Close() calls
    rendered,     \* the integer eventstream.Render returned, NoCode before
    joinIdx,      \* index of the output channel the join is waiting on
    exited,       \* the process has terminated
    exitKind,     \* "none", "normal" (line 127), "forced" (line 150), "signal"
    exitCode      \* the code passed to os.Exit, NoCode otherwise

mainVars == <<mainpc, execErr, buildCreated, armed, feed, feedCloses, rendered, joinIdx>>
watchVars == <<wpc, consumed, abortCalls, abortFailed>>
inVars == <<ipc, iIdx, upState, inputCloses>>
outVars == <<opc, dlState, outCloses>>
xferVars == <<transferFailed>>
exitVars == <<exited, exitKind, exitCode>>
cfgVars == <<inputs, outputs>>
vars == <<cfgVars, mainVars, watchVars, inVars, outVars, xferVars, exitVars, terminate, delivered>>

\* ---- helpers --------------------------------------------------------------
Bindings(n) == UNION {[1..k -> Paths] : k \in 0..n}

InputIdx == 1..Len(inputs)
OutputIdx == 1..Len(outputs)

\* An exit that ends only the goroutine that calls it (runtime.Goexit, or a
\* plain return, in place of os.Exit): the other goroutines run on.
Alive_GoexitOnly == TRUE

\* The process is running: no os.Exit and no fatal signal so far.
Alive == ~exited

\* os.Exit(code)
Exit(kind, code) ==
    /\ exited' = TRUE
    /\ exitKind' = kind
    /\ exitCode' = code

Init ==
    /\ inputs \in Bindings(MaxBindings)
    /\ outputs \in Bindings(MaxBindings - Len(inputs))
    /\ mainpc = "createBuild"
    /\ execErr = ""
    /\ buildCreated = FALSE
    /\ armed = FALSE
    /\ terminate = <<>>
    /\ wpc = "notStarted"
    /\ delivered = 0
    /\ consumed = 0
    /\ abortCalls = 0
    /\ abortFailed = FALSE
    /\ ipc = "notStarted"
    /\ iIdx = 1
    /\ upState = [i \in InputIdx |-> "idle"]
    /\ inputCloses = 0
    /\ opc = [o \in OutputIdx |-> "notStarted"]
    /\ dlState = [o \in OutputIdx |-> "idle"]
    /\ outCloses = [o \in OutputIdx |-> 0]
    /\ transferFailed = FALSE
    /\ feed = "unopened"
    /\ feedCloses = 0
    /\ rendered = NoCode
    /\ joinIdx = 1
    /\ exited = FALSE
    /\ exitKind = "none"
    /\ exitCode = NoCode

\* ---- the main goroutine: ExecuteCommand.Execute -------------------------

\* executehelpers.CreateBuild(...): the build, or an error Execute returns.
MainCreateBuild(ok) ==
    /\ Alive
    /\ mainpc = "createBuild"
    /\ IF ok
         THEN /\ buildCreated' = TRUE
              /\ mainpc' = "goWatcher"
              /\ execErr' = execErr
         ELSE /\ buildCreated' = buildCreated
              /\ mainpc' = "returned"
              /\ execErr' = "CreateBuild"
    /\ UNCHANGED <<armed, feed, feedCloses, rendered, joinIdx>>
    /\ UNCHANGED <<cfgVars, xferVars, watchVars, inVars, outVars, exitVars, terminate, delivered>>

\* terminate := make(chan os.Signal, 1); go abortOnSignal(client, terminate, build)
MainGoWatcher ==
    /\ Alive
    /\ mainpc = "goWatcher"
    /\ terminate' = <<>>
    /\ wpc' = "wait1"
    /\ mainpc' = "notify"
    /\ UNCHANGED <<execErr, buildCreated, armed, feed, feedCloses, rendered, joinIdx>>
    /\ UNCHANGED <<consumed, abortCalls, abortFailed>>
    /\ UNCHANGED <<cfgVars, xferVars, inVars, outVars, exitVars, delivered>>

\* signal.Notify(terminate, syscall.SIGINT, syscall.SIGTERM)
MainNotify ==
    /\ Alive
    /\ mainpc = "notify"
    /\ armed' = TRUE
    /\ mainpc' = "goInputs"
    /\ UNCHANGED <<execErr, buildCreated, feed, feedCloses, rendered, joinIdx>>
    /\ UNCHANGED <<cfgVars, xferVars, watchVars, inVars, outVars, exitVars, terminate, delivered>>

\* inputChan := make(chan interface{}); go func() { ... }()
MainGoInputs ==
    /\ Alive
    /\ mainpc = "goInputs"
    /\ ipc' = "loop"
    /\ mainpc' = "goOutputs"
    /\ UNCHANGED <<iIdx, upState, inputCloses>>
    /\ UNCHANGED <<execErr, buildCreated, armed, feed, feedCloses, rendered, joinIdx>>
    /\ UNCHANGED <<cfgVars, xferVars, watchVars, outVars, exitVars, terminate, delivered>>

\* if len(outputs) > 0 { for i, output := range outputs { make chan; go func ... } }
MainGoOutputs ==
    /\ Alive
    /\ mainpc = "goOutputs"
    /\ opc' = IF Len(outputs) > 0 THEN [o \in OutputIdx |-> "start"] ELSE opc
    /\ mainpc' = "buildEvents"
    /\ UNCHANGED <<dlState, outCloses>>
    /\ UNCHANGED <<execErr, buildCreated, armed, feed, feedCloses, rendered, joinIdx>>
    /\ UNCHANGED <<cfgVars, xferVars, watchVars, inVars, exitVars, terminate, delivered>>

\* An Execute that, when the feed cannot be opened, first waits for the
\* transfers it started before it returns the error.
MainBuildEvents_JoinOnError(ok) ==
    /\ Alive
    /\ mainpc = "buildEvents"
    /\ IF ok
         THEN /\ feed' = "open"
              /\ mainpc' = "render"
              /\ execErr' = execErr
         ELSE /\ feed' = feed
              /\ mainpc' = "waitInput"
              /\ execErr' = "BuildEvents"
    /\ UNCHANGED <<buildCreated, armed, feedCloses, rendered, joinIdx>>
    /\ UNCHANGED <<cfgVars, xferVars, watchVars, inVars, outVars, exitVars, terminate, delivered>>

\* eventSource, err := client.BuildEvents(...); if err != nil { return err }
MainBuildEvents(ok) ==
    /\ Alive
    /\ mainpc = "buildEvents"
    /\ IF ok
         THEN /\ feed' = "open"
              /\ mainpc' = "render"
              /\ execErr' = execErr
         ELSE /\ feed' = feed
              /\ mainpc' = "returned"
              /\ execErr' = "BuildEvents"
    /\ UNCHANGED <<buildCreated, armed, feedCloses, rendered, joinIdx>>
    /\ UNCHANGED <<cfgVars, xferVars, watchVars, inVars, outVars, exitVars, terminate, delivered>>

\* An Execute that closes the feed only after a successful task: a non-zero
\* status goes straight to the join.
MainRender_CloseOnSuccessOnly(code) ==
    /\ Alive
    /\ mainpc = "render"
    /\ rendered' = code
    /\ mainpc' = IF code = 0 THEN "closeFeed" ELSE "waitInput"
    /\ UNCHANGED <<execErr, buildCreated, armed, feed, feedCloses, joinIdx>>
    /\ UNCHANGED <<cfgVars, xferVars, watchVars, inVars, outVars, exitVars, terminate, delivered>>

\* exitCode := eventstream.Render(os.Stdout, eventSource): the call returns code.
MainRender(code) ==
    /\ Alive
    /\ mainpc = "render"
    /\ rendered' = code
    /\ mainpc' = "closeFeed"
    /\ UNCHANGED <<execErr, buildCreated, armed, feed, feedCloses, joinIdx>>
    /\ UNCHANGED <<cfgVars, xferVars, watchVars, inVars, outVars, exitVars, terminate, delivered>>

\* eventSource.Close()
MainCloseFeed ==
    /\ Alive
    /\ mainpc = "closeFeed"
    /\ feed' = "closed"
    /\ feedCloses' = feedCloses + 1
    /\ mainpc' = "waitInput"
    /\ UNCHANGED <<execErr, buildCreated, armed, rendered, joinIdx>>
    /\ UNCHANGED <<cfgVars, xferVars, watchVars, inVars, outVars, exitVars, terminate, delivered>>

\* A join that goes on to the output wait whatever len(outputs) is, and there
\* waits for a first signal.
MainWaitInput_AlwaysWaitOutputs ==
    /\ Alive
    /\ mainpc = "waitInput"
    /\ inputCloses > 0
    /\ mainpc' = "waitOutputs"
    /\ UNCHANGED <<execErr, buildCreated, armed, feed, feedCloses, rendered, joinIdx>>
    /\ UNCHANGED <<cfgVars, xferVars, watchVars, inVars, outVars, exitVars, terminate, delivered>>

\* <-inputChan: a receive on an unbuffered channel nobody sends on returns
\* once the channel is closed.  Then `if len(outputs) > 0` picks the next step.
MainWaitInput ==
    /\ Alive
    /\ mainpc = "waitInput"
    /\ inputCloses > 0
    /\ mainpc' = IF Len(outputs) > 0 THEN "waitOutputs" ELSE "exit"
    /\ UNCHANGED <<execErr, buildCreated, armed, feed, feedCloses, rendered, joinIdx>>
    /\ UNCHANGED <<cfgVars, xferVars, watchVars, inVars, outVars, exitVars, terminate, delivered>>

\* A join that stops after the first output channel.
MainWaitOutput_FirstOnly ==
    /\ Alive
    /\ mainpc = "waitOutputs"
    /\ joinIdx <= Len(outputs)
    /\ outCloses[joinIdx] > 0
    /\ joinIdx' = joinIdx + 1
    /\ mainpc' = "exit"
    /\ UNCHANGED <<execErr, buildCreated, armed, feed, feedCloses, rendered>>
    /\ UNCHANGED <<cfgVars, xferVars, watchVars, inVars, outVars, exitVars, terminate, delivered>>

\* for _, outputChan := range outputChans { <-outputChan }: one receive.
MainWaitOutput ==
    /\ Alive
    /\ mainpc = "waitOutputs"
    /\ joinIdx <= Len(outputs)
    /\ outCloses[joinIdx] > 0
    /\ joinIdx' = joinIdx + 1
    /\ mainpc' = IF joinIdx = Len(outputs) THEN "exit" ELSE "waitOutputs"
    /\ UNCHANGED <<execErr, buildCreated, armed, feed, feedCloses, rendered>>
    /\ UNCHANGED <<cfgVars, xferVars, watchVars, inVars, outVars, exitVars, terminate, delivered>>

\* An exit code that a failed transfer turns into 1.
MainExit_FailOnTransferError ==
    /\ Alive
    /\ mainpc = "exit"
    /\ Exit("normal", IF transferFailed THEN 1 ELSE rendered)
    /\ mainpc' = "done"
    /\ UNCHANGED <<execErr, buildCreated, armed, feed, feedCloses, rendered, joinIdx>>
    /\ UNCHANGED <<cfgVars, xferVars, watchVars, inVars, outVars, terminate, delivered>>

\* os.Exit(exitCode)
MainExit ==
    /\ Alive
    /\ mainpc = "exit"
    /\ Exit("normal", rendered)
    /\ mainpc' = "done"
    /\ UNCHANGED <<execErr, buildCreated, armed, feed, feedCloses, rendered, joinIdx>>
    /\ UNCHANGED <<cfgVars, xferVars, watchVars, inVars, outVars, terminate, delivered>>

\* ---- the operating system: SIGINT / SIGTERM -----------------------------

\* One interrupt reaches the process.  Once signal.Notify has registered the
\* channel, the runtime does a non-blocking send: the signal is queued if the
\* buffer has room and dropped otherwise.  Before that, the signal has its
\* default disposition and ends the process.
Interrupt(sig) ==
    /\ Alive
    /\ delivered < MaxInterrupts
    /\ delivered' = delivered + 1
    /\ IF armed
         THEN /\ terminate' = IF Len(terminate) < TerminateCap
                                THEN Append(terminate, sig)
                                ELSE terminate
              /\ UNCHANGED exitVars
         ELSE /\ Exit("signal", NoCode)
              /\ UNCHANGED terminate
    /\ UNCHANGED <<cfgVars, xferVars, mainVars, watchVars, inVars, outVars>>

\* ---- the watcher goroutine: abortOnSignal ---------------------------------

\* A watcher that takes the first interrupt off the channel and only waits for
\* the next one: no abort is requested for it.
WatcherFirstSignal_DiscardFirst ==
    /\ Alive
    /\ wpc = "wait1"
    /\ Len(terminate) > 0
    /\ terminate' = Tail(terminate)
    /\ consumed' = consumed + 1
    /\ wpc' = "wait2"
    /\ UNCHANGED <<abortCalls, abortFailed>>
    /\ UNCHANGED <<cfgVars, xferVars, mainVars, inVars, outVars, exitVars, delivered>>

\* <-terminate; "aborting..."; client.AbortBuild(strconv.Itoa(build.ID)) is
\* called.  The receive and the start of the call are one step: nothing but a
\* write to stderr lies between them.
WatcherFirstSignal ==
    /\ Alive
    /\ wpc = "wait1"
    /\ Len(terminate) > 0
    /\ terminate' = Tail(terminate)
    /\ consumed' = consumed + 1
    /\ abortCalls' = abortCalls + 1
    /\ wpc' = "abort"
    /\ UNCHANGED abortFailed
    /\ UNCHANGED <<cfgVars, xferVars, mainVars, inVars, outVars, exitVars, delivered>>

\* A watcher that goes on to wait for the second interrupt whether or not the
\* abort call succeeded.
WatcherAbortReturn_WaitAgainOnFailure(res) ==
    /\ Alive
    /\ wpc = "abort"
    /\ wpc' = "wait2"
    /\ abortFailed' = (abortFailed \/ res = "fail")
    /\ UNCHANGED <<consumed, abortCalls>>
    /\ UNCHANGED <<cfgVars, xferVars, mainVars, inVars, outVars, exitVars, terminate, delivered>>

\* A watcher for which a failed abort is fatal: it ends the process.
WatcherAbortReturn_FatalOnFailure(res) ==
    /\ Alive
    /\ wpc = "abort"
    /\ IF res = "ok"
         THEN /\ wpc' = "wait2"
              /\ abortFailed' = abortFailed
              /\ UNCHANGED exitVars
         ELSE /\ wpc' = "exited"
              /\ abortFailed' = TRUE
              /\ Exit("abort", 1)
    /\ UNCHANGED <<consumed, abortCalls>>
    /\ UNCHANGED <<cfgVars, xferVars, mainVars, inVars, outVars, terminate, delivered>>

\* AbortBuild returns: err != nil prints "failed to abort" and returns from
\* the goroutine; otherwise the goroutine goes on to the second receive.
WatcherAbortReturn(res) ==
    /\ Alive
    /\ wpc = "abort"
    /\ IF res = "ok"
         THEN /\ wpc' = "wait2"
              /\ abortFailed' = abortFailed
         ELSE /\ wpc' = "returned"
              /\ abortFailed' = TRUE
    /\ UNCHANGED <<consumed, abortCalls>>
    /\ UNCHANGED <<cfgVars, xferVars, mainVars, inVars, outVars, exitVars, terminate, delivered>>

\* A watcher that treats every interrupt alike: it aborts again.
WatcherForceExit_AbortAgain ==
    /\ Alive
    /\ wpc = "wait2"
    /\ Len(terminate) > 0
    /\ terminate' = Tail(terminate)
    /\ consumed' = consumed + 1
    /\ abortCalls' = abortCalls + 1
    /\ wpc' = "abort"
    /\ UNCHANGED abortFailed
    /\ UNCHANGED <<cfgVars, xferVars, mainVars, inVars, outVars, exitVars, delivered>>

\* <-terminate; "exiting immediately"; os.Exit(2)
WatcherForceExit ==
    /\ Alive
    /\ wpc = "wait2"
    /\ Len(terminate) > 0
    /\ terminate' = Tail(terminate)
    /\ consumed' = consumed + 1
    /\ wpc' = "exited"
    /\ Exit("forced", ForcedExitCode)
    /\ UNCHANGED <<abortCalls, abortFailed>>
    /\ UNCHANGED <<cfgVars, xferVars, mainVars, inVars, outVars, delivered>>

\* ---- the input goroutine: for _, i := range inputs { ... }; close --------

\* An upload started in the background (go executehelpers.Upload(...)): the
\* loop moves on at once.
InputUploadStart_Background ==
    /\ Alive
    /\ ipc = "loop"
    /\ iIdx <= Len(inputs)
    /\ inputs[iIdx] # ""
    /\ upState' = [upState EXCEPT ![iIdx] = "running"]
    /\ iIdx' = iIdx + 1
    /\ UNCHANGED <<ipc, inputCloses>>
    /\ UNCHANGED <<cfgVars, xferVars, mainVars, watchVars, outVars, exitVars, terminate, delivered>>

\* i.Path != "": executehelpers.Upload(client, i, excludeIgnored) is called.
InputUploadStart ==
    /\ Alive
    /\ ipc = "loop"
    /\ iIdx <= Len(inputs)
    /\ inputs[iIdx] # ""
    /\ upState' = [upState EXCEPT ![iIdx] = "running"]
    /\ ipc' = "uploading"
    /\ UNCHANGED <<iIdx, inputCloses>>
    /\ UNCHANGED <<cfgVars, xferVars, mainVars, watchVars, outVars, exitVars, terminate, delivered>>

\* An input goroutine that gives up at the first failed Upload: it returns
\* without closing inputChan.
InputUploadReturn_ReturnOnFailure(res) ==
    /\ Alive
    /\ ipc = "uploading"
    /\ upState' = [upState EXCEPT ![iIdx] = "returned"]
    /\ transferFailed' = (transferFailed \/ res = "fail")
    /\ iIdx' = iIdx + 1
    /\ ipc' = IF res = "fail" THEN "done" ELSE "loop"
    /\ UNCHANGED inputCloses
    /\ UNCHANGED <<cfgVars, mainVars, watchVars, outVars, exitVars, terminate, delivered>>

\* Upload returns (it returns nothing: a failure is only its own report);
\* the loop moves to the next binding.
InputUploadReturn(res) ==
    /\ Alive
    /\ ipc = "uploading"
    /\ upState' = [upState EXCEPT ![iIdx] = "returned"]
    /\ transferFailed' = (transferFailed \/ res = "fail")
    /\ iIdx' = iIdx + 1
    /\ ipc' = "loop"
    /\ UNCHANGED inputCloses
    /\ UNCHANGED <<cfgVars, mainVars, watchVars, outVars, exitVars, terminate, delivered>>

\* i.Path == "": the binding is skipped.
InputSkip ==
    /\ Alive
    /\ ipc = "loop"
    /\ iIdx <= Len(inputs)
    /\ inputs[iIdx] = ""
    /\ iIdx' = iIdx + 1
    /\ UNCHANGED <<ipc, upState, inputCloses>>
    /\ UNCHANGED <<cfgVars, xferVars, mainVars, watchVars, outVars, exitVars, terminate, delivered>>

\* The range is exhausted: close(inputChan).
InputClose ==
    /\ Alive
    /\ ipc = "loop"
    /\ iIdx > Len(inputs)
    /\ inputCloses' = inputCloses + 1
    /\ ipc' = "done"
    /\ UNCHANGED <<iIdx, upState>>
    /\ UNCHANGED <<cfgVars, xferVars, mainVars, watchVars, outVars, exitVars, terminate, delivered>>

\* ---- one goroutine per output ---------------------------------------------

\* Downloads done one after another, like the uploads: an output starts only
\* when the goroutines of the outputs before it have ended.
OutputStart_AfterPrevious(o) ==
    /\ Alive
    /\ opc[o] = "start"
    /\ \A p \in OutputIdx : p < o => opc[p] = "done"
    /\ IF outputs[o] # ""
         THEN /\ dlState' = [dlState EXCEPT ![o] = "running"]
              /\ opc' = [opc EXCEPT ![o] = "downloading"]
              /\ outCloses' = outCloses
         ELSE /\ dlState' = dlState
              /\ opc' = [opc EXCEPT ![o] = "done"]
              /\ outCloses' = [outCloses EXCEPT ![o] = @ + 1]
    /\ UNCHANGED <<cfgVars, xferVars, mainVars, watchVars, inVars, exitVars, terminate, delivered>>

\* A goroutine that closes its channel before it calls Download.
OutputStart_CloseFirst(o) ==
    /\ Alive
    /\ opc[o] = "start"
    /\ outCloses' = [outCloses EXCEPT ![o] = @ + 1]
    /\ IF outputs[o] # ""
         THEN /\ dlState' = [dlState EXCEPT ![o] = "running"]
              /\ opc' = [opc EXCEPT ![o] = "downloading"]
         ELSE /\ dlState' = dlState
              /\ opc' = [opc EXCEPT ![o] = "done"]
    /\ UNCHANGED <<cfgVars, xferVars, mainVars, watchVars, inVars, exitVars, terminate, delivered>>

\* A goroutine that calls Download whether or not the output has a path.
OutputStart_AlwaysDownload(o) ==
    /\ Alive
    /\ opc[o] = "start"
    /\ dlState' = [dlState EXCEPT ![o] = "running"]
    /\ opc' = [opc EXCEPT ![o] = "downloading"]
    /\ outCloses' = outCloses
    /\ UNCHANGED <<cfgVars, xferVars, mainVars, watchVars, inVars, exitVars, terminate, delivered>>

\* The goroutine of output o starts running.  if o.Path != "": the call of
\* executehelpers.Download(client, o) begins.  Otherwise the body falls
\* through to close(outputChan) and the goroutine ends.
OutputStart(o) ==
    /\ Alive
    /\ opc[o] = "start"
    /\ IF outputs[o] # ""
         THEN /\ dlState' = [dlState EXCEPT ![o] = "running"]
              /\ opc' = [opc EXCEPT ![o] = "downloading"]
              /\ outCloses' = outCloses
         ELSE /\ dlState' = dlState
              /\ opc' = [opc EXCEPT ![o] = "done"]
              /\ outCloses' = [outCloses EXCEPT ![o] = @ + 1]
    /\ UNCHANGED <<cfgVars, xferVars, mainVars, watchVars, inVars, exitVars, terminate, delivered>>

\* A goroutine that returns early when the download failed, its channel open.
OutputDownloadReturn_NoCloseOnFailure(o, res) ==
    /\ Alive
    /\ opc[o] = "downloading"
    /\ dlState' = [dlState EXCEPT ![o] = "returned"]
    /\ transferFailed' = (transferFailed \/ res = "fail")
    /\ outCloses' = IF res = "fail" THEN outCloses ELSE [outCloses EXCEPT ![o] = @ + 1]
    /\ opc' = [opc EXCEPT ![o] = "done"]
    /\ UNCHANGED <<cfgVars, mainVars, watchVars, inVars, exitVars, terminate, delivered>>

\* Download returns, successfully or not (it returns nothing: a failure is
\* only its own report); then close(outputChan) and the goroutine ends.
OutputDownloadReturn(o, res) ==
    /\ Alive
    /\ opc[o] = "downloading"
    /\ dlState' = [dlState EXCEPT ![o] = "returned"]
    /\ transferFailed' = (transferFailed \/ res = "fail")
    /\ outCloses' = [outCloses EXCEPT ![o] = @ + 1]
    /\ opc' = [opc EXCEPT ![o] = "done"]
    /\ UNCHANGED <<cfgVars, mainVars, watchVars, inVars, exitVars, terminate, delivered>>

\* ---- the specification ----------------------------------------------------

Next ==
    \/ \E ok \in BOOLEAN : MainCreateBuild(ok)
    \/ MainGoWatcher
    \/ MainNotify
    \/ MainGoInputs
    \/ MainGoOutputs
    \/ \E ok \in BOOLEAN : MainBuildEvents(ok)
    \/ \E code \in RenderCodes : MainRender(code)
    \/ MainCloseFeed
    \/ MainWaitInput
    \/ MainWaitOutput
    \/ MainExit
    \/ \E sig \in Signals : Interrupt(sig)
    \/ WatcherFirstSignal
    \/ \E res \in Outcomes : WatcherAbortReturn(res)
    \/ WatcherForceExit
    \/ InputUploadStart
    \/ \E res \in Outcomes : InputUploadReturn(res)
    \/ InputSkip
    \/ InputClose
    \/ \E o \in OutputIdx : OutputStart(o)
    \/ \E o \in OutputIdx, res \in Outcomes : OutputDownloadReturn(o, res)

Spec == Init /\ [][Next]_vars

\* The steps of each goroutine, for the fairness the Go scheduler gives: a
\* goroutine that can run is run, and a call to the remote service returns.
\* Render is left out: it returns when the build's event stream ends, and
\* nothing bounds that.  Interrupts are the user's and are left out too.
MainStep ==
    \/ \E ok \in BOOLEAN : MainCreateBuild(ok)
    \/ MainGoWatcher
    \/ MainNotify
    \/ MainGoInputs
    \/ MainGoOutputs
    \/ \E ok \in BOOLEAN : MainBuildEvents(ok)
    \/ MainCloseFeed
    \/ MainWaitInput
    \/ MainWaitOutput
    \/ MainExit

WatcherStep ==
    \/ WatcherFirstSignal
    \/ \E res \in Outcomes : WatcherAbortReturn(res)
    \/ WatcherForceExit

InputStep ==
    \/ InputUploadStart
    \/ \E res \in Outcomes : InputUploadReturn(res)
    \/ InputSkip
    \/ InputClose

OutputStep ==
    \/ \E o \in OutputIdx : OutputStart(o)
    \/ \E o \in OutputIdx, res \in Outcomes : OutputDownloadReturn(o, res)

LiveInit ==
    /\ Init
    /\ Len(inputs) + Len(outputs) <= MaxLiveBindings

FairSpec ==
    /\ LiveInit /\ [][Next]_vars
    /\ WF_vars(MainStep)
    /\ WF_vars(WatcherStep)
    /\ WF_vars(InputStep)
    /\ WF_vars(OutputStep)

\* FairSpec, and the consumer returns: the build's event stream ends.
TerminationSpec ==
    /\ FairSpec
    /\ WF_vars(\E code \in RenderCodes : MainRender(code))

TypeOK ==
    /\ inputs \in Bindings(MaxBindings)
    /\ outputs \in Bindings(MaxBindings - Len(inputs))
    /\ mainpc \in {"createBuild", "goWatcher", "notify", "goInputs", "goOutputs",
                   "buildEvents", "render", "closeFeed", "waitInput", "waitOutputs",
                   "exit", "done", "returned"}
    /\ execErr \in {"", "CreateBuild", "BuildEvents"}
    /\ buildCreated \in BOOLEAN /\ armed \in BOOLEAN /\ abortFailed \in BOOLEAN
    /\ terminate \in Seq(Signals) /\ Len(terminate) <= TerminateCap
    /\ wpc \in {"notStarted", "wait1", "abort", "wait2", "returned", "exited"}
    /\ delivered \in 0..MaxInterrupts
    /\ consumed \in 0..2 /\ abortCalls \in 0..1
    /\ ipc \in {"notStarted", "loop", "uploading", "done"}
    /\ iIdx \in 1..(Len(inputs) + 1)
    /\ upState \in [InputIdx -> {"idle", "running", "returned"}]
    /\ inputCloses \in 0..1
    /\ opc \in [OutputIdx -> {"notStarted", "start", "downloading", "done"}]
    /\ dlState \in [OutputIdx -> {"idle", "running", "returned"}]
    /\ transferFailed \in BOOLEAN
    /\ outCloses \in [OutputIdx -> 0..1]
    /\ feed \in {"unopened", "open", "closed"}
    /\ feedCloses \in 0..1
    /\ rendered \in RenderCodes \cup {NoCode}
    /\ joinIdx \in 1..(Len(outputs) + 1)
    /\ exited \in BOOLEAN
    /\ exitKind \in {"none", "normal", "forced", "signal"}
    /\ exitCode \in RenderCodes \cup {ForcedExitCode, NoCode}

\* ---- the signal watcher -----------------------------------------------------

\* C1: at most one AbortBuild call is ever issued for the build, however many
\* interrupts are delivered; and once abortOnSignal has consumed an interrupt,
\* exactly one has been issued.
C1_AtMostOneAbort ==
    /\ abortCalls <= 1
    /\ consumed >= 1 => abortCalls = 1

\* Several interrupts were delivered, the watcher consumed two of them, and one
\* abort call went out.
C1_Witness ==
    /\ delivered >= 2
    /\ consumed = 2
    /\ abortCalls = 1

\* C2: once a second interrupt has been delivered (after arming, before the
\* process exited) the process terminates by the forced exit with code 2,
\* even if the consumer has not returned and transfers are pending, whatever
\* the first abort call returned and whenever the second interrupt came.  The
\* runs allowed to end otherwise are those the main path ended first, by its
\* own os.Exit or by returning an error from Execute.
C2_SecondInterruptForcesExit ==
    (delivered >= 2) ~>
        \/ exited /\ (exitKind = "normal" \/ exitCode = ForcedExitCode)
        \/ mainpc = "returned"

\* C3: a second interrupt delivered while the AbortBuild call is in flight
\* terminates the process without waiting for the call to return: the forced
\* exit can be taken in that very state.
C3_ForceExitDuringAbort ==
    (Alive /\ wpc = "abort" /\ Len(terminate) > 0) => ENABLED WatcherForceExit

\* ---- the exit code and the join ---------------------------------------------

NoneRunning(state) == \A k \in DOMAIN state : state[k] # "running"

\* C4: in a run without any interrupt, a process that has exited did so on
\* the normal path with exactly the integer Render returned, whatever the
\* transfers did.
C4_ExitCodeIsRenderResult ==
    (exited /\ delivered = 0) =>
        /\ exitKind = "normal"
        /\ rendered \in RenderCodes
        /\ exitCode = rendered

\* No interrupt, a transfer failed, Render returned 0 and the process exited.
C4_Witness ==
    /\ exited /\ delivered = 0
    /\ transferFailed
    /\ \E i \in InputIdx : upState[i] = "returned"
    /\ \E o \in OutputIdx : dlState[o] = "returned"
    /\ rendered = 0

\* C5: no completion channel is ever closed twice, a channel is closed
\* exactly when its goroutine has run to its end, and at a normal exit every
\* one of them has been closed exactly once.
C5_SignalsFireExactlyOnce ==
    /\ inputCloses <= 1
    /\ (ipc = "done") = (inputCloses = 1)
    /\ \A o \in OutputIdx :
         /\ outCloses[o] <= 1
         /\ (opc[o] = "done") = (outCloses[o] = 1)
    /\ exitKind = "normal" =>
         /\ inputCloses = 1
         /\ \A o \in OutputIdx : outCloses[o] = 1

\* Two outputs, the first without a path, the second with one; no input has a
\* path, so the transfer that failed is the second output's Download.  All
\* three channels are closed once.
C5_Witness ==
    /\ Len(outputs) = 2 /\ outputs[1] = "" /\ outputs[2] # ""
    /\ \A i \in InputIdx : inputs[i] = ""
    /\ transferFailed
    /\ inputCloses = 1 /\ outCloses[1] = 1 /\ outCloses[2] = 1

\* C6: the normal exit (os.Exit(exitCode)) happens only after the join has
\* observed the input channel and every output channel closed; no Upload or
\* Download is running then.
C6_NormalExitAfterJoin ==
    exitKind = "normal" =>
        /\ inputCloses >= 1
        /\ \A o \in OutputIdx : outCloses[o] >= 1
        /\ joinIdx = IF Len(outputs) > 0 THEN Len(outputs) + 1 ELSE 1
        /\ NoneRunning(upState) /\ NoneRunning(dlState)
        /\ ipc = "done" /\ \A o \in OutputIdx : opc[o] = "done"

\* A normal exit of a run with an uploaded input and two downloaded outputs.
C6_Witness ==
    /\ exitKind = "normal"
    /\ Len(outputs) = 2 /\ \A o \in OutputIdx : dlState[o] = "returned"
    /\ \E i \in InputIdx : upState[i] = "returned"

\* ---- the transfers --------------------------------------------------------

WithPath(bindings) == {k \in DOMAIN bindings : bindings[k] # ""}
Called(state) == {k \in DOMAIN state : state[k] # "idle"}

\* The join has received from inputChan.
InputObserved == mainpc \in {"waitOutputs", "exit", "done"}
\* The join has received from the channel of output o.
OutputObserved(o) == mainpc \in {"waitOutputs", "exit", "done"} /\ o < joinIdx

\* C7: when the join has observed the input channel closed, every Upload of
\* the sequence has returned; when it has observed an output's channel closed,
\* that output's Download has returned.
C7_JoinSeesFinishedTransfers ==
    /\ InputObserved =>
         \A i \in InputIdx : inputs[i] # "" => upState[i] = "returned"
    /\ \A o \in OutputIdx :
         (OutputObserved(o) /\ outputs[o] # "") => dlState[o] = "returned"

\* The join has passed an input with a path and the first output, which has a
\* path, and now waits on the second output, whose Download is running.
C7_Witness ==
    /\ mainpc = "waitOutputs" /\ joinIdx = 2
    /\ outputs[1] # "" /\ dlState[1] = "returned"
    /\ dlState[2] = "running"
    /\ \E i \in InputIdx : upState[i] = "returned"

\* C8: a binding with an empty path never has Upload/Download called for it,
\* and its completion signal still fires; the Download calls are those of the
\* outputs with a path, one each, once the output goroutines have ended, and
\* the Upload calls those of the inputs with a path, once the input goroutine
\* has.
C8_EmptyPathMeansNoTransfer ==
    /\ Called(upState) \subseteq WithPath(inputs)
    /\ Called(dlState) \subseteq WithPath(outputs)
    /\ \A o \in OutputIdx : (outputs[o] = "" /\ opc[o] = "done") => outCloses[o] = 1
    /\ ipc = "done" => (inputCloses = 1 /\ Called(upState) = WithPath(inputs))
    /\ (\A o \in OutputIdx : opc[o] = "done") => Called(dlState) = WithPath(outputs)
    /\ exitKind = "normal" =>
         /\ Cardinality(Called(dlState)) = Cardinality(WithPath(outputs))
         /\ Cardinality(Called(upState)) = Cardinality(WithPath(inputs))

\* Three outputs, the third without a path: at the normal exit exactly two
\* Download calls were made and the third channel is closed.
C8_Witness ==
    /\ Len(outputs) = 3 /\ outputs[1] # "" /\ outputs[2] # "" /\ outputs[3] = ""
    /\ exitKind = "normal"
    /\ Cardinality(Called(dlState)) = 2
    /\ dlState[3] = "idle" /\ outCloses[3] = 1

\* C9: with zero output bindings no Download is ever called and the join has
\* no output wait: once the input channel is closed the main path can leave
\* the input wait, and it goes straight to os.Exit.
C9_NoOutputsNoOutputWait ==
    Len(outputs) = 0 =>
        /\ mainpc # "waitOutputs"
        /\ Called(dlState) = {}
        /\ joinIdx = 1
        /\ (Alive /\ mainpc = "waitInput" /\ inputCloses > 0) => ENABLED MainWaitInput
        /\ (Alive /\ mainpc = "exit") => ENABLED MainExit

\* A run without outputs that uploaded an input and exited normally.
C9_Witness ==
    /\ Len(outputs) = 0
    /\ exitKind = "normal"
    /\ \E i \in InputIdx : upState[i] = "returned"

\* C10: at most one Upload is in progress; an Upload has been called only if
\* the Upload of every earlier input with a path has returned; the input
\* channel is closed only after the loop has gone past every input; and the
\* loop is never blocked at an input without a path.
C10_UploadsInOrder ==
    /\ Cardinality({i \in InputIdx : upState[i] = "running"}) <= 1
    /\ \A i, j \in InputIdx :
         (i < j /\ inputs[i] # "" /\ upState[j] # "idle") => upState[i] = "returned"
    /\ inputCloses > 0 =>
         /\ iIdx = Len(inputs) + 1
         /\ \A i \in WithPath(inputs) : upState[i] = "returned"
    /\ (Alive /\ ipc = "loop" /\ iIdx <= Len(inputs) /\ inputs[iIdx] = "") => ENABLED InputSkip

\* Three inputs, the middle one without a path: the first Upload has
\* returned, the middle binding was skipped and the third Upload is running.
C10_Witness ==
    /\ Len(inputs) = 3 /\ inputs[1] # "" /\ inputs[2] = "" /\ inputs[3] # ""
    /\ upState[1] = "returned" /\ upState[2] = "idle" /\ upState[3] = "running"
    /\ inputCloses = 0


\* ---- errors and the forced exit ----------------------------------------------

\* Every completion channel has been closed once and the feed closed once.
Joined ==
    /\ feedCloses = 1
    /\ inputCloses = 1
    /\ \A o \in OutputIdx : outCloses[o] = 1

\* C11: a failed AbortBuild call is reported and nothing more: the watcher
\* has returned, the process is never ended by the forced exit afterwards, the
\* main path can still take its next step, and when the process exits it does
\* so on the normal path, after the feed was closed and the transfers joined,
\* with the consumer's exit code.
C11_AbortFailureNotFatal ==
    abortFailed =>
        /\ wpc = "returned"
        /\ exitKind \in {"none", "normal"}
        /\ exited => (exitCode = rendered /\ rendered \in RenderCodes /\ Joined)
        /\ (Alive /\ mainpc \in {"buildEvents", "render", "closeFeed", "exit"}) =>
             ENABLED (MainStep \/ \E code \in RenderCodes : MainRender(code))

\* The abort call failed after an interrupt, and the run still went through
\* the consumer and the join and exited with the consumer's code 1.
C11_Witness ==
    /\ abortFailed
    /\ exitKind = "normal" /\ exitCode = 1
    /\ Joined
    /\ \E o \in OutputIdx : dlState[o] = "returned"


\* C12: once the watcher has called os.Exit(2) the process has ended with code
\* 2 and nothing happens any more: no Upload or Download starts or returns,
\* the feed is not closed, no join wait completes and the main path's
\* os.Exit(exitCode) does not replace the exit code.
C12_ForcedExitIsFinal ==
    /\ [](exitKind = "forced" => (exited /\ exitCode = ForcedExitCode /\ mainpc # "done"))
    /\ [][exitKind = "forced" => UNCHANGED vars]_vars

\* The forced exit came while the consumer was reading the open feed and an
\* Upload and a Download were running.
C12_Witness ==
    /\ exitKind = "forced"
    /\ mainpc = "render" /\ feed = "open"
    /\ \E i \in InputIdx : upState[i] = "running"
    /\ \E o \in OutputIdx : dlState[o] = "running"


\* C13: the forced exit code is distinct from the task-level codes: a process
\* that has exited did so with code 2 if and only if the watcher's second
\* interrupt forced the exit.
C13_ForcedCodeOnlyWhenForced ==
    exited => ((exitCode = ForcedExitCode) <=> (exitKind = "forced"))


\* C14: when client.BuildEvents fails after the build was created, Execute
\* has returned that error: it is at its end, not waiting on any transfer or
\* on the watcher it started; the consumer never ran, the feed was neither
\* opened nor closed, and the process never exits with a task exit code.  The
\* return is possible whatever the transfers and the watcher are doing.
C14_FeedOpenErrorReturns ==
    /\ execErr = "BuildEvents" =>
         /\ mainpc = "returned"
         /\ buildCreated /\ armed
         /\ wpc # "notStarted" /\ ipc # "notStarted"
         /\ rendered = NoCode
         /\ feed = "unopened" /\ feedCloses = 0
         /\ exitKind # "normal"
    /\ (Alive /\ mainpc = "buildEvents") => ENABLED MainBuildEvents(FALSE)
    /\ mainpc = "returned" => execErr # ""

\* The feed could not be opened while an Upload and a Download were running
\* and the watcher was inside AbortBuild: Execute has returned the error.
C14_Witness ==
    /\ execErr = "BuildEvents" /\ mainpc = "returned"
    /\ wpc = "abort"
    /\ \E i \in InputIdx : upState[i] = "running"
    /\ \E o \in OutputIdx : dlState[o] = "running"


\* The main path is at or past the join: it waits on, or has received from,
\* the completion channels.
AtJoin == mainpc \in {"waitInput", "waitOutputs", "exit", "done"}

\* C15: the feed is never closed twice; it is closed only after Render has
\* returned; and whenever the main path is at the join or beyond, whatever
\* status Render returned, the feed has been closed exactly once.
C15_FeedClosedOnceBeforeJoin ==
    /\ feedCloses <= 1
    /\ (feed = "closed") = (feedCloses = 1)
    /\ feedCloses = 1 => rendered \in RenderCodes
    /\ rendered \in RenderCodes => mainpc \in {"closeFeed", "waitInput", "waitOutputs", "exit", "done"}
    /\ mainpc = "closeFeed" => (feed = "open" /\ feedCloses = 0)
    /\ AtJoin => (feedCloses = 1 /\ rendered \in RenderCodes)

\* The consumer returned the failure status 1, the feed was closed once, and
\* the join is waiting on the input channel, not yet closed.
C15_Witness ==
    /\ mainpc = "waitInput" /\ inputCloses = 0
    /\ rendered = 1
    /\ feed = "closed" /\ feedCloses = 1


\* ---- progress -------------------------------------------------------------------

\* C16: no AbortBuild call is made before the build exists; the first
\* interrupt delivered after signal.Notify is queued in the channel until the
\* watcher takes it; and, the goroutines being scheduled fairly, an interrupt
\* delivered after arming leads to an AbortBuild call unless the process exits
\* first.
C16_ArmedInterruptNotLost ==
    /\ [](abortCalls >= 1 => buildCreated)
    /\ []((Alive /\ armed /\ delivered >= 1 /\ consumed = 0) => Len(terminate) = 1)
    /\ (armed /\ delivered >= 1) ~> (abortCalls >= 1 \/ exited)

\* An interrupt that came right after signal.Notify, before the transfers
\* were started, has led to the AbortBuild call.
C16_Witness ==
    /\ armed /\ delivered = 1
    /\ ipc = "notStarted"
    /\ consumed = 1 /\ abortCalls = 1


\* C17: while the Download of an output is in progress, every other goroutine
\* can take the step it is at: another output's goroutine can start and its
\* Download return, the input goroutine can go on, the main path can open the
\* feed, have Render return, close the feed and pass the channels that are
\* closed, and the watcher can act on a queued interrupt.  Only the join waits
\* for the Download: the main path has not gone past that output's channel.
C17_DownloadsIndependent ==
    \A o \in OutputIdx : (Alive /\ dlState[o] = "running") =>
        /\ \A p \in OutputIdx \ {o} :
             /\ opc[p] = "start" => ENABLED OutputStart(p)
             /\ opc[p] = "downloading" => ENABLED OutputDownloadReturn(p, "ok")
        /\ ipc \in {"loop", "uploading"} => ENABLED InputStep
        /\ mainpc = "buildEvents" => ENABLED MainBuildEvents(TRUE)
        /\ mainpc = "render" => ENABLED MainRender(0)
        /\ mainpc = "closeFeed" => ENABLED MainCloseFeed
        /\ (mainpc = "waitInput" /\ inputCloses > 0) => ENABLED MainWaitInput
        /\ (mainpc = "waitOutputs" /\ outCloses[joinIdx] > 0) => ENABLED MainWaitOutput
        /\ (wpc \in {"wait1", "wait2"} /\ Len(terminate) > 0) => ENABLED WatcherStep
        /\ wpc = "abort" => ENABLED WatcherStep
        /\ mainpc \notin {"exit", "done"}
        /\ mainpc = "waitOutputs" => joinIdx <= o

\* The first output's Download is still running while the second output's
\* has returned, an Upload has returned, the watcher has made its abort call
\* and the consumer has returned: the main path waits at the join for the
\* first output.
C17_Witness ==
    /\ Len(outputs) = 2
    /\ dlState[1] = "running" /\ dlState[2] = "returned"
    /\ \E i \in InputIdx : upState[i] = "returned"
    /\ abortCalls = 1
    /\ mainpc = "waitOutputs" /\ joinIdx = 1


\* C18: in a run without interrupts in which the build is created and the
\* feed opens, with every goroutine scheduled fairly and every Upload,
\* Download and Render call returning, the process eventually exits on the
\* normal path with the consumer's exit code, every completion channel closed
\* and the join passed.
C18_TerminatesWithConsumerCode ==
    <>(\/ delivered > 0
       \/ mainpc = "returned"
       \/ (exitKind = "normal" /\ exitCode = rendered /\ Joined /\ mainpc = "done"))

\* No interrupt; an Upload and a Download were made, one of them failed; the
\* process has exited with the consumer's code.
C18_Witness ==
    /\ delivered = 0
    /\ exitKind = "normal" /\ exitCode = rendered /\ Joined
    /\ transferFailed
    /\ \E i \in InputIdx : upState[i] = "returned"
    /\ \E o \in OutputIdx : dlState[o] = "returned"


\* C19: the watcher's os.Exit(2) happens only after the watcher has consumed
\* two interrupts and its one AbortBuild call has returned without error; a
\* watcher that has consumed at most one interrupt, or whose abort call
\* failed, has not forced the exit and cannot.
C19_ForcedExitNeedsTwoAndAbortOk ==
    /\ exitKind = "forced" =>
         /\ consumed = 2 /\ delivered >= 2
         /\ abortCalls = 1 /\ ~abortFailed
         /\ wpc = "exited"
    /\ (consumed <= 1 \/ abortFailed) => exitKind # "forced"
    /\ (wpc \in {"notStarted", "wait1", "abort", "returned"}) => ~ENABLED WatcherForceExit

\* The forced exit: two interrupts consumed, one successful abort call.
C19_Witness ==
    /\ exitKind = "forced" /\ exitCode = ForcedExitCode
    /\ consumed = 2 /\ abortCalls = 1 /\ ~abortFailed

====
